---- MODULE Spec2Model ----
(***************************************************************************)
(* A model of the rust-layers compositor: the Scene of src/src/scene.rs    *)
(* (buffer-request traversal, global invalidation, root resizing), the    *)
(* Mac OS native surface registry of src/src/platform/macos/surface.rs,    *)
(* the draw path of src/src/rendergl.rs, and the image textures and the    *)
(* child lists of the first version (src/rendergl.rs, src/layers.rs).      *)
(***************************************************************************)
EXTENDS Integers, Sequences, FiniteSets, TLC

(***************************************************************************)
(* Bounds of the model.                                                    *)
(***************************************************************************)
\* The number of layers that exist; a scene's tree uses 1..n of them, n <= MaxLayers.
MaxLayers == 4
\* The number of native surface handles a run makes (created or decoded).
MaxSurfaces == 2
\* The number of images, and of frames rendered from them.
MaxImages == 2
MaxFrames == 4
\* The number of add_child and remove_child calls of a run.
MaxLinkOps == 6

Layers == 1..MaxLayers

(***************************************************************************)
(* Option<T>: None is the empty sequence, Some(v) the one-element one.     *)
(***************************************************************************)
None == <<>>
Some(v) == <<v>>
Unwrap(o) == o[1]

(***************************************************************************)
(* Geometry (euclid's Rect, as scene.rs uses it).                          *)
(***************************************************************************)
Rect(x, y, w, h) == [x |-> x, y |-> y, w |-> w, h |-> h]
Size(w, h) == [w |-> w, h |-> h]

Max(a, b) == IF a > b THEN a ELSE b
Min(a, b) == IF a < b THEN a ELSE b

\* Rect::intersects: strict overlap on both axes.
Intersects(a, b) ==
    /\ a.x < b.x + b.w
    /\ b.x < a.x + a.w
    /\ a.y < b.y + b.h
    /\ b.y < a.y + a.h

\* Rect::intersection: None when the rects do not overlap.
Intersection(a, b) ==
    IF ~Intersects(a, b)
    THEN None
    ELSE LET x0 == Max(a.x, b.x)
             y0 == Max(a.y, b.y)
             x1 == Min(a.x + a.w, b.x + b.w)
             y1 == Min(a.y + a.h, b.y + b.h)
         IN Some(Rect(x0, y0, x1 - x0, y1 - y0))

(***************************************************************************)
(* State.                                                                  *)
(***************************************************************************)
VARIABLES
    \* Scene (scene.rs:18-24)
    root,            \* Option<Layer>
    viewport,        \* device-pixel rect
    scale,           \* layer pixel -> device pixel factor
    \* Layer<T> fields the scene reads and writes
    children,        \* layer -> sequence of child layers, in tree order
    masks_to_bounds, \* layer -> BOOLEAN
    screen_rect,     \* layer -> Option<Rect>: transform_state.screen_rect
    bounds,          \* layer -> Rect
    unused,          \* layer -> set of buffers the layer holds and no longer uses
    content_age,     \* layer -> number of contents_changed() calls received
    \* The caller's two output vectors of get_buffer_requests
    requests,        \* sequence of <<layer, sequence of BufferRequest>>
    unused_buffers,  \* sequence of <<layer, set of buffers>>
    \* History
    op,              \* the operation that ran last, with its arguments
    old,             \* the state the last operation started from
    log,             \* the events of the last traversal, in program order
    \* Native surfaces (surface.rs)
    repository,      \* thread -> the ids that thread's IO_SURFACE_REPOSITORY maps (surface.rs:36)
    handles,         \* the IOSurfaceNativeSurface values made so far (surface.rs:84-87)
    allocated,       \* how many IOSurfaces the system has allocated; their ids are 1..allocated
    texture_surface, \* Option<id>: the surface attached to the texture as backing store
    \* History
    sres,            \* the surface operation that ran last and how it ended
    sold,            \* the surface state the last surface operation started from
    \* Rendering (src/src/rendergl.rs)
    render_context,  \* RenderContext (rendergl.rs:263-274): the fields the draw path reads
    layer_transform, \* layer -> Matrix: Layer.transform
    tiles,           \* layer -> sequence of Tile
    gl,              \* the state of the GL context
    draws,           \* the draw calls of the last render operation, in program order
    frame,           \* the render operation that ran last: arguments, outcome, starting state
    \* Images of the first renderer (src/rendergl.rs)
    images,          \* image -> Image: pixel data and Option<Texture>
    image_log,       \* the clears, calls, uploads and draws so far, in program order
    \* The first layer tree (src/layers.rs:38-67)
    parent,          \* layer -> Option<Layer>: CommonLayer.parent
    prev_sibling,    \* layer -> Option<Layer>
    next_sibling,    \* layer -> Option<Layer>
    first_child,     \* container -> Option<Layer>
    last_child,      \* container -> Option<Layer>
    link_op          \* the child-list operation that ran last and the links it started from

scene_vars == <<root, viewport, scale>>
layer_vars == <<children, masks_to_bounds, screen_rect, bounds, unused, content_age>>
out_vars == <<requests, unused_buffers>>
hist_vars == <<op, old, log>>
surface_vars == <<repository, handles, allocated, texture_surface, sres, sold>>
render_vars == <<render_context, layer_transform, tiles, gl, draws, frame>>
all_scene_vars == <<scene_vars, layer_vars, out_vars, hist_vars>>
\* What the operations of one component leave alone.
image_vars == <<images, image_log>>
link_vars == <<parent, prev_sibling, next_sibling, first_child, last_child, link_op>>
non_scene_vars == <<surface_vars, render_vars, image_vars, link_vars>>
non_surface_vars == <<all_scene_vars, render_vars, image_vars, link_vars>>
non_render_vars == <<all_scene_vars, surface_vars, image_vars, link_vars>>
non_image_vars == <<all_scene_vars, surface_vars, render_vars, link_vars>>
non_link_vars == <<all_scene_vars, surface_vars, render_vars, image_vars>>
vars == <<all_scene_vars, surface_vars, render_vars, image_vars, link_vars>>

(***************************************************************************)
(* Layer<T> methods the scene calls.                                       *)
(***************************************************************************)
\* Layer::get_buffer_requests: the dirty rect is intersected with the layer's
\* bounds and a request is emitted for each tile of the intersection that
\* needs painting.  No painter runs in this model, so every tile of the
\* intersection needs painting; the tile grid is one tile wide.
LayerGetBufferRequests(layer, dirty_rect, viewport_rect, sc) ==
    LET i == Intersection(dirty_rect, bounds[layer])
    IN IF i = None
       THEN <<>>
       ELSE <<[layer |-> layer, rect |-> Unwrap(i), scale |-> sc]>>

\* Layer::contents_changed: the layer's content becomes stale.
ContentsChanged(layer, age) == [age EXCEPT ![layer] = @ + 1]

\* Layer::children
LayerChildren(layer) == children[layer]

(***************************************************************************)
(* Scene::get_buffer_requests_for_layer (scene.rs:35-87).                  *)
(* acc carries what the code mutates through its &mut arguments and the    *)
(* layers' RefCells: the two output vectors, the layers' unused buffers,   *)
(* and the event log.                                                      *)
(***************************************************************************)
Event(ev, layer, dirty_rect, viewport_rect) ==
    [ev |-> ev, layer |-> layer, dirty |-> dirty_rect, viewport |-> viewport_rect]

\* scene.rs:44-49: the requests are pushed only when there are some.
PushRequests(layer, dirty_rect, viewport_rect, acc) ==
    LET reqs == LayerGetBufferRequests(layer, dirty_rect, viewport_rect, scale)
    IN IF reqs # <<>>
       THEN [acc EXCEPT !.requests = Append(@, <<layer, reqs>>),
                        !.log = Append(@, Event("requests", layer, dirty_rect, viewport_rect))]
       ELSE acc

\* scene.rs:50: the unused buffers are collected and pushed, whatever they are.
PushUnusedBuffers(layer, dirty_rect, viewport_rect, acc) ==
    [acc EXCEPT !.unused_buffers = Append(@, <<layer, acc.unused[layer]>>),
                !.unused[layer] = {},
                !.log = Append(@, Event("unused", layer, dirty_rect, viewport_rect))]

\* ChildDirtyRect without its early returns: a clipped layer hands the dirty rect on.
ChildDirtyRect_NoEarlyExit(layer, dirty_rect) ==
    IF masks_to_bounds[layer] /\ screen_rect[layer] # None
       /\ Intersection(dirty_rect, Unwrap(screen_rect[layer])) # None
    THEN Intersection(dirty_rect, Unwrap(screen_rect[layer]))
    ELSE Some(dirty_rect)

\* ChildDirtyRect without the narrowing: a masking layer whose screen rect meets
\* the dirty rect hands the whole dirty rect on.
ChildDirtyRect_Unnarrowed(layer, dirty_rect) ==
    IF masks_to_bounds[layer]
    THEN IF screen_rect[layer] = None
            \/ Intersection(dirty_rect, Unwrap(screen_rect[layer])) = None
         THEN None
         ELSE Some(dirty_rect)
    ELSE Some(dirty_rect)

\* scene.rs:54-78: the dirty rect handed to the children; None is the early return.
ChildDirtyRect(layer, dirty_rect) ==
    IF masks_to_bounds[layer]
    THEN IF screen_rect[layer] = None
         THEN None
         ELSE Intersection(dirty_rect, Unwrap(screen_rect[layer]))
    ELSE Some(dirty_rect)

RECURSIVE GetBufferRequestsForLayer(_, _, _, _)
RECURSIVE ForEachKid(_, _, _, _, _)

\* ForEachKid with an index slip: every iteration visits the first kid.
ForEachKid_FirstKid(kids, i, child_dirty_rect, viewport_rect, acc) ==
    IF i > Len(kids)
    THEN acc
    ELSE ForEachKid(kids, i + 1, child_dirty_rect, viewport_rect,
                    GetBufferRequestsForLayer(kids[1], child_dirty_rect, viewport_rect, acc))

\* ForEachKid walking the children from the last to the first.
ForEachKid_Reversed(kids, i, child_dirty_rect, viewport_rect, acc) ==
    IF i > Len(kids)
    THEN acc
    ELSE ForEachKid(kids, i + 1, child_dirty_rect, viewport_rect,
                    GetBufferRequestsForLayer(kids[Len(kids) + 1 - i], child_dirty_rect,
                                              viewport_rect, acc))

\* scene.rs:80-86: the loop over layer.children(), from index i on.
ForEachKid(kids, i, child_dirty_rect, viewport_rect, acc) ==
    IF i > Len(kids)
    THEN acc
    ELSE ForEachKid(kids, i + 1, child_dirty_rect, viewport_rect,
                    GetBufferRequestsForLayer(kids[i], child_dirty_rect, viewport_rect, acc))

\* GetBufferRequestsForLayer with the clip check moved in front of the collection
\* of the unused buffers.
GetBufferRequestsForLayer_ClipFirst(layer, dirty_rect, viewport_rect, acc) ==
    LET a0 == [acc EXCEPT !.log = Append(@, Event("visit", layer, dirty_rect, viewport_rect))]
        a1 == PushRequests(layer, dirty_rect, viewport_rect, a0)
        child_dirty_rect == ChildDirtyRect(layer, dirty_rect)
        a2 == [a1 EXCEPT !.log = Append(@, Event("clip", layer, dirty_rect, viewport_rect))]
    IN IF child_dirty_rect = None
       THEN a2
       ELSE ForEachKid(LayerChildren(layer), 1, Unwrap(child_dirty_rect), viewport_rect,
                       PushUnusedBuffers(layer, dirty_rect, viewport_rect, a2))

\* scene.rs:43-87
GetBufferRequestsForLayer(layer, dirty_rect, viewport_rect, acc) ==
    LET a0 == [acc EXCEPT !.log = Append(@, Event("visit", layer, dirty_rect, viewport_rect))]
        a1 == PushRequests(layer, dirty_rect, viewport_rect, a0)
        a2 == PushUnusedBuffers(layer, dirty_rect, viewport_rect, a1)
        child_dirty_rect == ChildDirtyRect(layer, dirty_rect)
        a3 == [a2 EXCEPT !.log = Append(@, Event("clip", layer, dirty_rect, viewport_rect))]
    IN IF child_dirty_rect = None
       THEN a3
       ELSE ForEachKid(LayerChildren(layer), 1, Unwrap(child_dirty_rect), viewport_rect, a3)

(***************************************************************************)
(* Scene::mark_layer_contents_as_changed_recursively_for_layer             *)
(* (scene.rs:104-109).                                                     *)
(***************************************************************************)
RECURSIVE MarkForLayer(_, _)
RECURSIVE MarkForEachKid(_, _, _)

MarkForEachKid(kids, i, age) ==
    IF i > Len(kids)
    THEN age
    ELSE MarkForEachKid(kids, i + 1, MarkForLayer(kids[i], age))

\* MarkForLayer with the traversal's clip check copied in: a masking layer
\* without a screen rect keeps its children from being marked.
MarkForLayer_Clipped(layer, age) ==
    IF masks_to_bounds[layer] /\ screen_rect[layer] = None
    THEN ContentsChanged(layer, age)
    ELSE MarkForEachKid(LayerChildren(layer), 1, ContentsChanged(layer, age))

\* scene.rs:104-109
MarkForLayer(layer, age) ==
    MarkForEachKid(LayerChildren(layer), 1, ContentsChanged(layer, age))

\* get_buffer_requests that empties the vectors of a rootless scene.
TraverseFromRoot_Clearing(acc0) ==
    IF root = None
    THEN [acc0 EXCEPT !.requests = <<>>, !.unused_buffers = <<>>]
    ELSE GetBufferRequestsForLayer(Unwrap(root), bounds[Unwrap(root)],
                                   bounds[Unwrap(root)], acc0)

\* scene.rs:92-101: nothing without a root; else the traversal starts at the root,
\* with the root's bounds as dirty rect and as viewport rect.
TraverseFromRoot(acc0) ==
    IF root = None
    THEN acc0
    ELSE GetBufferRequestsForLayer(Unwrap(root), bounds[Unwrap(root)],
                                   bounds[Unwrap(root)], acc0)

\* The new root bounds with the size multiplied by the scale.
NewRootBounds_Multiplied(new_size) ==
    Rect(0, 0, new_size.w * scale, new_size.h * scale)

\* scene.rs:122: Rect::new(Point2D::zero(), new_size / self.scale).  The sizes of
\* the model are multiples of its scales, so the division is exact as in f32.
NewRootBounds(new_size) ==
    Rect(0, 0, new_size.w \div scale, new_size.h \div scale)

(***************************************************************************)
(* Native surfaces (surface.rs).                                           *)
(***************************************************************************)
\* IO_SURFACE_REPOSITORY is thread_local!: every thread has its own map.
Threads == {"compositor", "painter"}

\* The system keeps an IOSurface while a reference to it is held; the
\* references of this process are the repository entries.
Alive(id) == \E t \in Threads : id \in repository[t]

\* from_io_surface returning a handle that is not flagged will-leak.
NewHandle_WontLeak(id) == [io_surface_id |-> Some(id), will_leak |-> FALSE]

\* surface.rs:100-103: the handle from_io_surface returns.
NewHandle(id) == [io_surface_id |-> Some(id), will_leak |-> TRUE]

\* surface.rs:161-166
GetId(handle) == IF handle.io_surface_id = None THEN 0 ELSE Unwrap(handle.io_surface_id)

\* remove() emptying the map.
RepositoryRemove_Clear(map, id) == {}

\* surface.rs:170: HashMap::remove of the key.
RepositoryRemove(map, id) == map \ {id}

\* surface.rs:172-173: the id is dropped and mark_wont_leak called.
DestroyedHandle(handle) == [handle EXCEPT !.io_surface_id = None, !.will_leak = FALSE]

\* How bind_to_texture ends when an absent id is read as id 0.
BindOutcome_IdOrZero(handle) ==
    IF handle.io_surface_id = None \/ ~Alive(GetId(handle))
    THEN "not_found"
    ELSE "ok"

\* surface.rs:152-153: unwrap() panics on an absent id; the lookup of an id
\* whose surface is gone finds nothing; else the surface is bound.
BindOutcome(handle) ==
    IF handle.io_surface_id = None
    THEN "panic"
    ELSE IF ~Alive(Unwrap(handle.io_surface_id))
         THEN "not_found"
         ELSE "ok"

NoSurfaceOp == [op |-> "none"]
SurfaceSnapshot ==
    [repository |-> repository, handles |-> handles, texture_surface |-> texture_surface]

InitNoSurfaces ==
    /\ repository = [t \in Threads |-> {}]
    /\ handles = <<>>
    /\ allocated = 0
    /\ texture_surface = None
    /\ sres = NoSurfaceOp
    /\ sold = [repository |-> [t \in Threads |-> {}], handles |-> <<>>,
               texture_surface |-> None]

\* IOSurfaceNativeSurface::new on thread t (surface.rs:117-145, 90-104): a
\* surface is allocated and registered under its id in t's repository.
SurfaceNew(t) ==
    /\ Len(handles) < MaxSurfaces
    /\ LET id == allocated + 1
       IN /\ allocated' = id
          /\ repository' = [repository EXCEPT ![t] = @ \cup {id}]
          /\ handles' = Append(handles, NewHandle(id))
          /\ sres' = [op |-> "new", thread |-> t, handle |-> Len(handles) + 1, outcome |-> "ok"]
    /\ sold' = SurfaceSnapshot
    /\ UNCHANGED texture_surface

\* The handle h encoded and decoded again (surface.rs:83), as for sending it
\* to another thread or process: a second handle with the same fields.
SurfaceDecode(h) ==
    /\ Len(handles) < MaxSurfaces
    /\ handles' = Append(handles, handles[h])
    /\ sres' = [op |-> "decode", thread |-> "compositor", handle |-> h, outcome |-> "ok"]
    /\ sold' = SurfaceSnapshot
    /\ UNCHANGED <<repository, allocated, texture_surface>>

\* IOSurfaceNativeSurface::bind_to_texture on thread t (surface.rs:147-154)
BindToTexture(t, h) ==
    /\ LET outcome == BindOutcome(handles[h])
       IN /\ texture_surface' = IF outcome = "ok"
                                THEN handles[h].io_surface_id
                                ELSE texture_surface
          /\ sres' = [op |-> "bind_to_texture", thread |-> t, handle |-> h,
                      outcome |-> outcome]
    /\ sold' = SurfaceSnapshot
    /\ UNCHANGED <<repository, handles, allocated>>

\* destroy returning quietly when the handle has no id left.
Destroy_Idempotent(t, h) ==
    /\ IF handles[h].io_surface_id = None
       THEN /\ sres' = [op |-> "destroy", thread |-> t, handle |-> h, outcome |-> "ok"]
            /\ UNCHANGED <<repository, handles>>
       ELSE /\ repository' = [repository EXCEPT ![t] =
                                 RepositoryRemove(@, Unwrap(handles[h].io_surface_id))]
            /\ handles' = [handles EXCEPT ![h] = DestroyedHandle(@)]
            /\ sres' = [op |-> "destroy", thread |-> t, handle |-> h, outcome |-> "ok"]
    /\ sold' = SurfaceSnapshot
    /\ UNCHANGED <<allocated, texture_surface>>

\* IOSurfaceNativeSurface::destroy on thread t (surface.rs:168-174)
Destroy(t, h) ==
    /\ IF handles[h].io_surface_id = None
       THEN /\ sres' = [op |-> "destroy", thread |-> t, handle |-> h, outcome |-> "panic"]
            /\ UNCHANGED <<repository, handles>>
       ELSE /\ repository' = [repository EXCEPT ![t] =
                                 RepositoryRemove(@, Unwrap(handles[h].io_surface_id))]
            /\ handles' = [handles EXCEPT ![h] = DestroyedHandle(@)]
            /\ sres' = [op |-> "destroy", thread |-> t, handle |-> h, outcome |-> "ok"]
    /\ sold' = SurfaceSnapshot
    /\ UNCHANGED <<allocated, texture_surface>>

\* IOSurfaceNativeSurface::mark_will_leak (surface.rs:176-178)
MarkWillLeak(h) ==
    /\ handles' = [handles EXCEPT ![h].will_leak = TRUE]
    /\ sres' = [op |-> "mark_will_leak", thread |-> "compositor", handle |-> h,
                outcome |-> "ok"]
    /\ sold' = SurfaceSnapshot
    /\ UNCHANGED <<repository, allocated, texture_surface>>

\* IOSurfaceNativeSurface::mark_wont_leak (surface.rs:180-182)
MarkWontLeak(h) ==
    /\ handles' = [handles EXCEPT ![h].will_leak = FALSE]
    /\ sres' = [op |-> "mark_wont_leak", thread |-> "compositor", handle |-> h,
                outcome |-> "ok"]
    /\ sold' = SurfaceSnapshot
    /\ UNCHANGED <<repository, allocated, texture_surface>>

(***************************************************************************)
(* Rendering (src/src/rendergl.rs).                                        *)
(***************************************************************************)
\* f32 values are counted in halves: F(n) is the float n and F(n) + 1 the
\* float n + 0.5.  A product is exact when one factor is a whole number, and
\* every product of the model has one.
F(n) == 2 * n
MulF(a, b) == (a * b) \div 2

\* `x as uint` (rendergl.rs:335-336) of an f32 x >= 0: the fraction is dropped.
AsUint(x) == x \div 2

\* Matrix4<f32>, of which the draw path uses the x and y scales and the x and y
\* translations.  identity(), mul, translate and scale are those of geom::matrix:
\* a.mul(b) is the transform that applies b first and a after it.
Identity == [m11 |-> F(1), m22 |-> F(1), m41 |-> F(0), m42 |-> F(0)]

MatrixMul(a, b) ==
    [m11 |-> MulF(b.m11, a.m11),
     m22 |-> MulF(b.m22, a.m22),
     m41 |-> MulF(b.m41, a.m11) + a.m41,
     m42 |-> MulF(b.m42, a.m22) + a.m42]

MatrixTranslate(a, x, y) == MatrixMul(a, [m11 |-> F(1), m22 |-> F(1), m41 |-> x, m42 |-> y])

MatrixScale(a, x, y) == [a EXCEPT !.m11 = MulF(@, x), !.m22 = MulF(@, y)]

\* Texture: the GL name, the target, the size in pixels and whether the content
\* is stored upside down (NoFlip or VerticalFlip).  The name 0 is the
\* "no content" sentinel of Texture::zero().
Texture(id, target, size, flip) ==
    [id |-> id, target |-> target, size |-> size, flip |-> flip]
ZeroTexture == Texture(0, "2d", Size(0, 0), "NoFlip")
IsZero(texture) == texture.id = 0

\* The GL names textures can have: every tile of every layer has its own.
TextureNames == 0..(2 * MaxLayers)
TextureName(layer, k) == 2 * (layer - 1) + k

\* The size of a tile's texture in pixels.
TileSize == Size(2, 3)

\* Tile: the texture slot, the tile's transform within its layer (the unit quad
\* scaled to the tile's size and moved to its place) and the buffer the painter
\* delivered, if any, given by the texture target its surface binds to.
Tile(texture, k, buffer) ==
    [texture |-> texture,
     transform |-> [m11 |-> F(TileSize.w), m22 |-> F(TileSize.h),
                    m41 |-> F((k - 1) * TileSize.w), m42 |-> F(0)],
     buffer |-> buffer]

\* rendergl.rs:91-94
TILE_DEBUG_BORDER_COLOR == "cyan"
TILE_DEBUG_BORDER_THICKNESS == 1
LAYER_DEBUG_BORDER_COLOR == "orange"
LAYER_DEBUG_BORDER_THICKNESS == 2

\* The GL context as RenderContext::new leaves it (rendergl.rs:277-310): no
\* program in use, no attribute array enabled, the line buffer bound last.
InitGL ==
    [viewport |-> None, clear_color |-> None, cleared |-> FALSE,
     program |-> "none", arrays |-> {}, active_texture |-> "none",
     bound_texture |-> 0, filter |-> [id \in TextureNames |-> "unset"],
     array_buffer |-> "line_quad_vertex_buffer", modelview |-> None,
     texture_space_transform |-> None,
     color |-> None, line_width |-> 1]

\* draw_arrays: what is drawn is fixed by the state of the context at the call.
\* who names the tile or layer the call is made for; it is not passed to GL.
DrawArrays(g, mode, count, who) ==
    [mode |-> mode, count |-> count, program |-> g.program,
     texture |-> g.bound_texture, filter |-> g.filter[g.bound_texture],
     modelview |-> g.modelview,
     texture_space |-> g.texture_space_transform,
     who |-> who]

\* rendergl.rs:197-207: the rectangle program exists in every build
\* but the Android one.
RectangleProgramChoices == {None, Some("texture_rectangle_program")}

\* bind_and_render_quad falling back to the 2D program for a rectangle texture.
QuadProgram_Fallback(texture) ==
    IF texture.target = "2d" \/ render_context.texture_rectangle_program = None
    THEN Some("texture_2d_program")
    ELSE render_context.texture_rectangle_program

\* rendergl.rs:318-327: the program for the texture's target; None stands for
\* fail!("There is no shader program for texture rectangle").
QuadProgram(texture) ==
    IF texture.target = "2d"
    THEN Some("texture_2d_program")
    ELSE render_context.texture_rectangle_program

\* rendergl.rs:335-338
FilterMode(texture, t) ==
    LET has_scale == \/ AsUint(t.m11) # texture.size.w
                     \/ AsUint(t.m22) # texture.size.h
    IN IF has_scale THEN "linear" ELSE "nearest"

\* The texture-coordinate transform without the translation that follows the flip.
TextureTransform_NoTranslate(texture, texture_coordinates_need_to_be_scaled_by_size) ==
    LET flipped == IF texture.flip = "VerticalFlip"
                   THEN MatrixScale(Identity, F(1), F(-1))
                   ELSE Identity
    IN IF texture_coordinates_need_to_be_scaled_by_size
       THEN MatrixScale(flipped, F(texture.size.w), F(texture.size.h))
       ELSE flipped

\* rendergl.rs:349-363: the transform of the texture coordinates.
TextureTransform(texture, texture_coordinates_need_to_be_scaled_by_size) ==
    LET flipped == IF texture.flip = "VerticalFlip"
                   THEN MatrixScale(Identity, F(1), F(-1))
                   ELSE Identity
        scaled == IF texture_coordinates_need_to_be_scaled_by_size
                  THEN MatrixScale(flipped, F(texture.size.w), F(texture.size.h))
                  ELSE flipped
    IN IF texture.flip = "VerticalFlip"
       THEN MatrixTranslate(scaled, F(0), F(-1))
       ELSE scaled

\* rendergl.rs:76-81: the corners of the unit quad, in triangle-strip order.
TEXTURED_QUAD_VERTICES ==
    << <<F(0), F(0)>>, <<F(0), F(1)>>, <<F(1), F(0)>>, <<F(1), F(1)>> >>

\* VERTEX_SHADER_SOURCE (rendergl.rs:61-74): vTextureCoord for the vertex v
\* under the uniform uTextureSpaceTransform m, which uniform_matrix_4fv uploads
\* untransposed (rendergl.rs:180-182).
VTextureCoord(m, v) == <<MulF(m.m11, v[1]) + m.m41, MulF(m.m22, v[2]) + m.m42>>

\* bind_and_render_quad (rendergl.rs:313-376).  acc carries the GL context, the
\* draw calls so far, the tiles and whether the task has failed.
BindAndRenderQuad(acc, texture, t, who) ==
    LET program == QuadProgram(texture)
    IN IF program = None
       THEN [acc EXCEPT !.outcome = "fail"]
       ELSE LET g1 == [acc.gl EXCEPT !.arrays = @ \cup {Unwrap(program)},
                                     !.program = Unwrap(program),
                                     !.active_texture = "TEXTURE0"]
                g2 == [g1 EXCEPT !.filter[texture.id] = FilterMode(texture, t)]
                texture_coordinates_need_to_be_scaled_by_size ==
                    texture.target = "rectangle"
                g3 == [g2 EXCEPT !.bound_texture = texture.id,
                                 !.modelview = Some(t),
                                 !.array_buffer = "textured_quad_vertex_buffer",
                                 !.texture_space_transform =
                                     Some(TextureTransform(texture,
                                         texture_coordinates_need_to_be_scaled_by_size))]
                g4 == [g3 EXCEPT !.bound_texture = 0,
                                 !.arrays = @ \ {Unwrap(program)}]
            IN [acc EXCEPT !.gl = g4,
                           !.draws = Append(@, DrawArrays(g3, "TRIANGLE_STRIP", 4, who))]

\* bind_and_render_quad_lines (rendergl.rs:378-394)
BindAndRenderQuadLines(acc, t, color, line_thickness, who) ==
    LET g1 == [acc.gl EXCEPT !.arrays = @ \cup {"solid_line_program"},
                             !.program = "solid_line_program",
                             !.modelview = Some(t),
                             !.texture_space_transform = Some(Identity),
                             !.color = Some(color),
                             !.array_buffer = "line_quad_vertex_buffer",
                             !.line_width = line_thickness]
        g2 == [g1 EXCEPT !.arrays = @ \ {"solid_line_program"}]
    IN [acc EXCEPT !.gl = g2,
                   !.draws = Append(@, DrawArrays(g1, "LINE_STRIP", 5, who))]

\* Tile::render drawing whatever the texture slot holds.
TileRender_NoSentinelCheck(acc, tile, t, who) ==
    LET composed == MatrixMul(t, tile.transform)
        quad == BindAndRenderQuad(acc, tile.texture, composed, who)
    IN IF quad.outcome # "ok"
       THEN quad
       ELSE IF render_context.show_debug_borders
            THEN BindAndRenderQuadLines(quad, composed, TILE_DEBUG_BORDER_COLOR,
                                        TILE_DEBUG_BORDER_THICKNESS, who)
            ELSE quad

\* impl Render for Tile (rendergl.rs:435-455)
TileRender(acc, tile, t, who) ==
    IF IsZero(tile.texture)
    THEN acc
    ELSE LET composed == MatrixMul(t, tile.transform)
             quad == BindAndRenderQuad(acc, tile.texture, composed, who)
         IN IF quad.outcome # "ok"
            THEN quad
            ELSE IF render_context.show_debug_borders
                 THEN BindAndRenderQuadLines(quad, composed, TILE_DEBUG_BORDER_COLOR,
                                             TILE_DEBUG_BORDER_THICKNESS, who)
                 ELSE quad

\* Layer::create_textures: a tile that holds a painted buffer and no texture
\* yet gets a texture of its own, of the target the buffer's surface binds to.
CreateTextures(acc, layer) ==
    LET created(k) ==
            LET tile == acc.tiles[layer][k]
            IN IF tile.buffer # None /\ IsZero(tile.texture)
               THEN [tile EXCEPT !.texture = Texture(TextureName(layer, k),
                                                     Unwrap(tile.buffer), TileSize,
                                                     "NoFlip")]
               ELSE tile
    IN [acc EXCEPT !.tiles[layer] = [k \in DOMAIN acc.tiles[layer] |-> created(k)]]

RECURSIVE DoForAllTiles(_, _, _, _)
\* Layer::do_for_all_tiles with the closure of rendergl.rs:415-417: the tiles
\* from the k-th on are rendered in the order the layer keeps them; a failed
\* task renders nothing more.
DoForAllTiles(acc, layer, t, k) ==
    IF k > Len(acc.tiles[layer]) \/ acc.outcome # "ok"
    THEN acc
    ELSE DoForAllTiles(TileRender(acc, acc.tiles[layer][k], t, [layer |-> layer, tile |-> k]),
                       layer, t, k + 1)

RECURSIVE LayerRender(_, _, _)
RECURSIVE RenderKids(_, _, _)

\* The loop over the children going from the last child to the first.
RenderKids_Reversed(acc, kids, t) ==
    IF kids = <<>> \/ acc.outcome # "ok"
    THEN acc
    ELSE RenderKids(LayerRender(acc, kids[Len(kids)], t), SubSeq(kids, 1, Len(kids) - 1), t)

\* rendergl.rs:428-430: the children are rendered in children() order.
RenderKids(acc, kids, t) ==
    IF kids = <<>> \/ acc.outcome # "ok"
    THEN acc
    ELSE RenderKids(LayerRender(acc, Head(kids), t), Tail(kids), t)

\* Layer::render handing its children the transform it draws its own tiles with.
LayerRender_KidsTransformed(acc, layer, t) ==
    LET origin == bounds[layer]
        cumulative_transform == MatrixTranslate(t, F(origin.x), F(origin.y))
        tile_transform == MatrixMul(cumulative_transform, layer_transform[layer])
        textured == CreateTextures(acc, layer)
        tiled == DoForAllTiles(textured, layer, tile_transform, 1)
        quad_transform == MatrixScale(t, F(origin.w), F(origin.h))
        bordered == IF tiled.outcome = "ok" /\ render_context.show_debug_borders
                    THEN BindAndRenderQuadLines(tiled, quad_transform,
                                                LAYER_DEBUG_BORDER_COLOR,
                                                LAYER_DEBUG_BORDER_THICKNESS,
                                                [layer |-> layer, tile |-> 0])
                    ELSE tiled
    IN RenderKids(bordered, LayerChildren(layer), tile_transform)

\* impl Render for Layer (rendergl.rs:405-433)
LayerRender(acc, layer, t) ==
    LET origin == bounds[layer]
        cumulative_transform == MatrixTranslate(t, F(origin.x), F(origin.y))
        tile_transform == MatrixMul(cumulative_transform, layer_transform[layer])
        textured == CreateTextures(acc, layer)
        tiled == DoForAllTiles(textured, layer, tile_transform, 1)
        quad_transform == MatrixScale(t, F(origin.w), F(origin.h))
        bordered == IF tiled.outcome = "ok" /\ render_context.show_debug_borders
                    THEN BindAndRenderQuadLines(tiled, quad_transform,
                                                LAYER_DEBUG_BORDER_COLOR,
                                                LAYER_DEBUG_BORDER_THICKNESS,
                                                [layer |-> layer, tile |-> 0])
                    ELSE tiled
    IN RenderKids(bordered, LayerChildren(layer), cumulative_transform)

\* render_scene (rendergl.rs:457-475) for the root layer root_layer.
RenderSceneFrom(acc, root_layer) ==
    LET g == [acc.gl EXCEPT !.viewport = Some(Size(viewport.w, viewport.h)),
                            !.clear_color = Some("background_color"),
                            !.cleared = TRUE]
        t == MatrixScale(Identity, F(scale), F(scale))
    IN LayerRender([acc EXCEPT !.gl = g], root_layer, t)

NoFrame == [op |-> "none"]

\* A context nothing is rendered with, beside layers without tiles.
InitNoRender ==
    /\ render_context = [texture_rectangle_program |-> None, show_debug_borders |-> FALSE]
    /\ layer_transform = [l \in Layers |-> Identity]
    /\ tiles = [l \in Layers |-> <<>>]
    /\ gl = InitGL
    /\ draws = <<>>
    /\ frame = NoFrame

(***************************************************************************)
(* Image textures of the first renderer (src/rendergl.rs).                 *)
(***************************************************************************)
Images == 1..MaxImages

\* Image: its pixel data, named by the image, and its texture slot.
NewImage(i) == [data |-> i, texture |-> None]

ImageEvent(kind, image, texture) == [kind |-> kind, image |-> image, texture |-> texture]

\* Texture::new (rendergl.rs:162): gen_textures hands out a name not in use;
\* every texture made here is uploaded to, so the uploads count the names.
NewTextureName(events) == Cardinality({k \in DOMAIN events : events[k].kind = "upload"}) + 1

\* create_texture_for_image_if_necessary making a texture at every call.
CreateTextureForImageIfNecessary_Always(acc, image) ==
    LET called == Append(acc.log, ImageEvent("call", image, acc.images[image].texture))
        texture == NewTextureName(acc.log)
        uploaded == Append(called, ImageEvent("upload", image, Some(texture)))
    IN [images |-> [acc.images EXCEPT ![image].texture = Some(texture)],
        log |-> Append(uploaded, ImageEvent("return", image, Some(texture)))]

\* create_texture_for_image_if_necessary (rendergl.rs:156-187).  acc carries
\* the images and the log of calls, uploads and draws.
CreateTextureForImageIfNecessary(acc, image) ==
    LET called == Append(acc.log, ImageEvent("call", image, acc.images[image].texture))
    IN IF acc.images[image].texture # None
       THEN [acc EXCEPT !.log = Append(called, ImageEvent("return", image,
                                                          acc.images[image].texture))]
       ELSE LET texture == NewTextureName(acc.log)
                uploaded == Append(called, ImageEvent("upload", image, Some(texture)))
            IN [images |-> [acc.images EXCEPT ![image].texture = Some(texture)],
                log |-> Append(uploaded, ImageEvent("return", image, Some(texture)))]

\* bind_and_render_quad of the first renderer (rendergl.rs:189-210)
DrawImage(acc, image) ==
    [acc EXCEPT !.log = Append(@, ImageEvent("draw", image, acc.images[image].texture))]

\* impl Render for ImageLayer (rendergl.rs:236-244)
ImageLayerRender(acc, image) ==
    DrawImage(CreateTextureForImageIfNecessary(acc, image), image)

RECURSIVE TiledImageLayerRender(_, _)
\* impl Render for TiledImageLayer (rendergl.rs:246-265)
TiledImageLayerRender(acc, image_tiles) ==
    IF image_tiles = <<>>
    THEN acc
    ELSE TiledImageLayerRender(
             DrawImage(CreateTextureForImageIfNecessary(acc, Head(image_tiles)),
                       Head(image_tiles)),
             Tail(image_tiles))

\* The layers a scene of images has as its root: an ImageLayer of one image
\* or a TiledImageLayer of the first n images.
ImageLayers ==
    {[kind |-> "ImageLayerKind", images |-> <<i>>] : i \in Images}
        \cup {[kind |-> "TiledImageLayerKind", images |-> [k \in 1..n |-> k]] : n \in Images}

\* render_layer (rendergl.rs:267-282)
RenderLayer(acc, layer) ==
    IF layer.kind = "ImageLayerKind"
    THEN ImageLayerRender(acc, layer.images[1])
    ELSE TiledImageLayerRender(acc, layer.images)

InitNoImages ==
    /\ images = [i \in Images |-> NewImage(i)]
    /\ image_log = <<>>

(***************************************************************************)
(* Child lists of the first layer tree (src/layers.rs).                    *)
(***************************************************************************)
\* The layers: two ContainerLayers and two TextureLayers.
Containers == {1, 2}
TextureLayers == {3, 4}
Nodes == Containers \cup TextureLayers

Links ==
    [parent |-> parent, prev_sibling |-> prev_sibling, next_sibling |-> next_sibling,
     first_child |-> first_child, last_child |-> last_child]

\* ContainerLayer::add_child (layers.rs:90-117) on the links l: the links after
\* the call and whether an assertion failed.
AddChildTo(l, self, new_child) ==
    IF \/ l.parent[new_child] # None
       \/ l.prev_sibling[new_child] # None
       \/ l.next_sibling[new_child] # None
    THEN [links |-> l, outcome |-> "assert"]
    ELSE LET adopted == [l EXCEPT !.parent[new_child] = Some(self)]
         IN IF adopted.first_child[self] = None
            THEN [links |-> [adopted EXCEPT
                                !.first_child[self] = Some(new_child),
                                !.last_child[self] = IF @ = None THEN Some(new_child) ELSE @],
                  outcome |-> "ok"]
            ELSE LET first == Unwrap(adopted.first_child[self])
                 IN IF adopted.prev_sibling[first] # None
                    THEN [links |-> adopted, outcome |-> "assert"]
                    ELSE LET pointed == [adopted EXCEPT !.prev_sibling[first] = Some(new_child)]
                             chained == [pointed EXCEPT !.next_sibling[new_child] = Some(first)]
                         IN [links |-> [chained EXCEPT
                                           !.first_child[self] = Some(new_child),
                                           !.last_child[self] =
                                               IF @ = None THEN Some(new_child) ELSE @],
                             outcome |-> "ok"]

\* layers.rs:131-149: the child is unlinked from its neighbours and from the
\* container's ends.
Unlink(l, self, child) ==
    LET after_next ==
            IF l.next_sibling[child] = None
            THEN [l EXCEPT !.last_child[self] = l.prev_sibling[child]]
            ELSE [l EXCEPT !.prev_sibling[Unwrap(l.next_sibling[child])] =
                               l.prev_sibling[child]]
    IN IF after_next.prev_sibling[child] = None
       THEN [after_next EXCEPT !.first_child[self] = after_next.next_sibling[child]]
       ELSE [after_next EXCEPT !.next_sibling[Unwrap(after_next.prev_sibling[child])] =
                                   after_next.next_sibling[child]]

\* remove_child unlinking whatever child it is given.
RemoveChildFrom_Unchecked(l, self, child) ==
    [links |-> Unlink(l, self, child), outcome |-> "ok"]

\* ContainerLayer::remove_child (layers.rs:119-150)
RemoveChildFrom(l, self, child) ==
    IF l.parent[child] = None \/ Unwrap(l.parent[child]) # self
    THEN [links |-> l, outcome |-> "assert"]
    ELSE [links |-> Unlink(l, self, child), outcome |-> "ok"]

NoLinkOp == [op |-> "none", outcome |-> "ok", count |-> 0]

\* CommonLayer() and ContainerLayer() (layers.rs:53-76): every layer is made
\* disconnected, every container without children.
InitNoLinks ==
    /\ parent = [n \in Nodes |-> None]
    /\ prev_sibling = [n \in Nodes |-> None]
    /\ next_sibling = [n \in Nodes |-> None]
    /\ first_child = [n \in Nodes |-> None]
    /\ last_child = [n \in Nodes |-> None]
    /\ link_op = NoLinkOp

(***************************************************************************)
(* The scenes the operations start from.                                   *)
(***************************************************************************)
\* A tree on the layers 1..n, numbered breadth-first: p[l] is l's parent, 0 for
\* the root and for the layers n+1..MaxLayers, which are in no tree.
IsTree(p, n) ==
    /\ p[1] = 0
    /\ \A l \in 2..n : p[l] >= 1 /\ p[l] < l
    /\ \A l \in 2..(n - 1) : p[l] <= p[l + 1]
    /\ \A l \in (n + 1)..MaxLayers : p[l] = 0

Parents == {p \in [Layers -> 0..(MaxLayers - 1)] : \E n \in 1..MaxLayers : IsTree(p, n)}

RECURSIVE Ascending(_)
Ascending(S) ==
    IF S = {}
    THEN <<>>
    ELSE LET m == CHOOSE x \in S : \A y \in S : x <= y
         IN <<m>> \o Ascending(S \ {m})

ChildrenOf(p) == [l \in Layers |-> Ascending({c \in Layers : p[c] = l})]

\* The cached screen rect of layer l, when it has one.
ScreenRectOf(l) == Rect(l, l, 2, 2)
\* The bounds of a layer that is not a root.
LayerBounds == Rect(0, 0, 3, 3)
\* The bounds of the root before any set_root_layer_size.
RootBounds == Rect(1, 1, 3, 3)
\* The sizes set_root_layer_size is called with, and the scene's scales.
NewSizes == {Size(8, 6), Size(4, 4)}
Scales == {1, 2}
Viewport == Rect(0, 0, 8, 6)

\* What the caller's vectors may hold when get_buffer_requests is called.
PriorRequests == <<<<1, <<[layer |-> 1, rect |-> Rect(0, 0, 1, 1), scale |-> 1]>>>>>>
PriorUnused == <<<<1, {0}>>>>

NoOp == [name |-> "none"]

Snapshot ==
    [root |-> root, viewport |-> viewport, scale |-> scale, bounds |-> bounds,
     unused |-> unused, content_age |-> content_age,
     requests |-> requests, unused_buffers |-> unused_buffers]

\* The layers that are in the tree p: the root and every layer with a parent.
InTree(p) == {1} \cup {l \in Layers : p[l] # 0}

\* The layers of the tree take any masks-to-bounds flag and have their screen
\* rect cached or not; the layers in no tree are as Layer::new leaves them.
InitLayers(p) ==
    /\ children = ChildrenOf(p)
    /\ masks_to_bounds \in {f \in [Layers -> BOOLEAN] :
                                \A l \in Layers \ InTree(p) : f[l] = FALSE}
    /\ \E cached \in SUBSET InTree(p) :
         screen_rect = [l \in Layers |-> IF l \in cached THEN Some(ScreenRectOf(l)) ELSE None]
    /\ \E stale \in BOOLEAN : unused = [l \in Layers |-> IF stale THEN {l} ELSE {}]
    /\ content_age = [l \in Layers |-> 0]

\* A scene without a root: the layers exist, in no tree.
InitEmptyScene ==
    /\ root = None
    /\ InitLayers([l \in Layers |-> 0])
    /\ bounds = [l \in Layers |-> LayerBounds]

\* A scene whose root is layer 1.
InitRootedScene ==
    /\ root = Some(1)
    /\ \E p \in Parents : InitLayers(p)
    /\ bounds = [l \in Layers |-> IF l = 1 THEN RootBounds ELSE LayerBounds]

Init ==
    /\ InitNoSurfaces
    /\ InitNoImages
    /\ InitNoLinks
    /\ InitNoRender
    /\ viewport = Viewport
    /\ scale \in Scales
    /\ InitEmptyScene \/ InitRootedScene
    /\ requests = <<>>
    /\ unused_buffers = <<>>
    /\ op = NoOp
    /\ old = Snapshot
    /\ log = <<>>

(***************************************************************************)
(* The operations of Scene.                                                *)
(***************************************************************************)
\* Scene::get_buffer_requests (scene.rs:89-102), called with vectors that are
\* empty or already hold earlier entries.
GetBufferRequests ==
    /\ op = NoOp
    /\ \E prior \in BOOLEAN :
         LET in_requests == IF prior THEN PriorRequests ELSE <<>>
             in_unused == IF prior THEN PriorUnused ELSE <<>>
             acc0 == [requests |-> in_requests, unused_buffers |-> in_unused,
                      unused |-> unused, log |-> <<>>]
             acc == TraverseFromRoot(acc0)
         IN /\ old' = [Snapshot EXCEPT !.requests = in_requests,
                                       !.unused_buffers = in_unused]
            /\ requests' = acc.requests
            /\ unused_buffers' = acc.unused_buffers
            /\ unused' = acc.unused
            /\ log' = acc.log
    /\ op' = [name |-> "get_buffer_requests"]
    /\ UNCHANGED <<scene_vars, children, masks_to_bounds, screen_rect, bounds, content_age>>
    /\ UNCHANGED non_scene_vars

\* Scene::mark_layer_contents_as_changed_recursively (scene.rs:111-117)
MarkLayerContentsAsChangedRecursively ==
    /\ op = NoOp
    /\ content_age' = IF root = None
                      THEN content_age
                      ELSE MarkForLayer(Unwrap(root), content_age)
    /\ op' = [name |-> "mark_layer_contents_as_changed_recursively"]
    /\ old' = Snapshot
    /\ UNCHANGED <<scene_vars, children, masks_to_bounds, screen_rect, bounds, unused,
                   out_vars, log>>
    /\ UNCHANGED non_scene_vars

\* Scene::set_root_layer_size (scene.rs:119-126)
SetRootLayerSize ==
    /\ op = NoOp
    /\ \E new_size \in NewSizes :
         /\ bounds' = IF root = None
                      THEN bounds
                      ELSE [bounds EXCEPT ![Unwrap(root)] = NewRootBounds(new_size)]
         /\ op' = [name |-> "set_root_layer_size", new_size |-> new_size]
    /\ old' = Snapshot
    /\ UNCHANGED <<scene_vars, children, masks_to_bounds, screen_rect, unused, content_age,
                   out_vars, log>>
    /\ UNCHANGED non_scene_vars

Next ==
    \/ GetBufferRequests
    \/ MarkLayerContentsAsChangedRecursively
    \/ SetRootLayerSize

Spec == Init /\ [][Next]_vars

(***************************************************************************)
(* The native surfaces on their own, beside a scene nothing operates on.   *)
(***************************************************************************)
InitSurface ==
    /\ InitNoSurfaces
    /\ InitNoImages
    /\ InitNoLinks
    /\ InitNoRender
    /\ viewport = Viewport
    /\ scale = 1
    /\ root = None
    /\ children = [l \in Layers |-> <<>>]
    /\ masks_to_bounds = [l \in Layers |-> FALSE]
    /\ screen_rect = [l \in Layers |-> None]
    /\ bounds = [l \in Layers |-> LayerBounds]
    /\ unused = [l \in Layers |-> {}]
    /\ content_age = [l \in Layers |-> 0]
    /\ requests = <<>>
    /\ unused_buffers = <<>>
    /\ op = NoOp
    /\ old = Snapshot
    /\ log = <<>>

NextSurface ==
    \/ \E t \in Threads : SurfaceNew(t) /\ UNCHANGED non_surface_vars
    \/ \E h \in DOMAIN handles : SurfaceDecode(h) /\ UNCHANGED non_surface_vars
    \/ \E t \in Threads : \E h \in DOMAIN handles :
           BindToTexture(t, h) /\ UNCHANGED non_surface_vars
    \/ \E t \in Threads : \E h \in DOMAIN handles : Destroy(t, h) /\ UNCHANGED non_surface_vars
    \/ \E h \in DOMAIN handles : MarkWillLeak(h) /\ UNCHANGED non_surface_vars
    \/ \E h \in DOMAIN handles : MarkWontLeak(h) /\ UNCHANGED non_surface_vars

SpecSurface == InitSurface /\ [][NextSurface]_vars

(***************************************************************************)
(* Frames: render_scene over the scenes a compositor can hold.             *)
(***************************************************************************)
\* The builds: textures are rectangle textures where the platform's surfaces
\* bind to that target, and a build without the rectangle program makes none.
Platforms ==
    {[target |-> "2d", program |-> Some("texture_rectangle_program")],
     [target |-> "rectangle", program |-> Some("texture_rectangle_program")],
     [target |-> "2d", program |-> None]}

\* The tiles a layer can hold: a tile with content beside one without, a tile
\* the painter has just filled beside one with content, or one tile without.
\* A scene gives every layer the first of these, or mixes the three.
Layout(layer, target, i) ==
    LET present(k) == Tile(Texture(TextureName(layer, k), target, TileSize, "NoFlip"),
                           k, Some(target))
        fresh(k) == Tile(ZeroTexture, k, Some(target))
        empty(k) == Tile(ZeroTexture, k, None)
    IN CASE i = 1 -> <<present(1), empty(2)>>
         [] i = 2 -> <<fresh(1), present(2)>>
         [] OTHER -> <<empty(1)>>

\* Every second layer magnifies its content and moves it.
LayerTransformOf(l) ==
    IF l % 2 = 0
    THEN [m11 |-> F(2), m22 |-> F(2), m41 |-> F(l), m42 |-> F(1)]
    ELSE Identity

RenderBounds(l) == Rect(l, l + 1, 4, 4)

InitRender ==
    /\ InitNoSurfaces
    /\ InitNoImages
    /\ InitNoLinks
    /\ viewport = Viewport
    /\ scale \in Scales
    /\ root = Some(1)
    /\ \E p \in Parents : \E platform \in Platforms : \E pick \in 1..3 :
         /\ children = ChildrenOf(p)
         /\ tiles = [l \in Layers |-> IF l \in InTree(p)
                                      THEN Layout(l, platform.target, ((l * pick) % 3) + 1)
                                      ELSE <<>>]
         /\ \E show_debug_borders \in BOOLEAN :
              render_context = [texture_rectangle_program |-> platform.program,
                                show_debug_borders |-> show_debug_borders]
    /\ masks_to_bounds = [l \in Layers |-> FALSE]
    /\ screen_rect = [l \in Layers |-> None]
    /\ bounds = [l \in Layers |-> RenderBounds(l)]
    /\ unused = [l \in Layers |-> {}]
    /\ content_age = [l \in Layers |-> 0]
    /\ requests = <<>>
    /\ unused_buffers = <<>>
    /\ op = NoOp
    /\ old = Snapshot
    /\ log = <<>>
    /\ layer_transform = [l \in Layers |-> LayerTransformOf(l)]
    /\ gl = InitGL
    /\ draws = <<>>
    /\ frame = NoFrame

\* render_scene (rendergl.rs:457-475): one frame.
RenderScene ==
    /\ root # None
    /\ LET acc == RenderSceneFrom([gl |-> gl, draws |-> <<>>, tiles |-> tiles,
                                   outcome |-> "ok"], Unwrap(root))
       IN /\ gl' = acc.gl
          /\ draws' = acc.draws
          /\ tiles' = acc.tiles
          /\ frame' = [op |-> "render_scene", outcome |-> acc.outcome,
                       old |-> [gl |-> gl, draws |-> draws, tiles |-> tiles]]
    /\ UNCHANGED <<render_context, layer_transform>>
    /\ UNCHANGED non_render_vars

NextRender == RenderScene

SpecRender == InitRender /\ [][NextRender]_vars

(***************************************************************************)
(* bind_and_render_quad called on its own, with any texture and transform. *)
(***************************************************************************)
QuadTextures ==
    {Texture(1, target, size, flip) : target \in {"2d", "rectangle"},
                                      size \in {Size(2, 3), Size(4, 4)},
                                      flip \in {"NoFlip", "VerticalFlip"}}

\* The scales tried for a texture n pixels wide or high: n, half a pixel more,
\* half a pixel less, and twice n.
QuadScales(n) == {F(n), F(n) + 1, F(n) - 1, F(2 * n)}

QuadTransforms(texture) ==
    {[m11 |-> sx, m22 |-> sy, m41 |-> F(1), m42 |-> F(0)] :
        sx \in QuadScales(texture.size.w), sy \in QuadScales(texture.size.h)}

InitQuad ==
    /\ InitNoSurfaces
    /\ InitNoImages
    /\ InitNoLinks
    /\ viewport = Viewport
    /\ scale = 1
    /\ root = None
    /\ children = [l \in Layers |-> <<>>]
    /\ masks_to_bounds = [l \in Layers |-> FALSE]
    /\ screen_rect = [l \in Layers |-> None]
    /\ bounds = [l \in Layers |-> LayerBounds]
    /\ unused = [l \in Layers |-> {}]
    /\ content_age = [l \in Layers |-> 0]
    /\ requests = <<>>
    /\ unused_buffers = <<>>
    /\ op = NoOp
    /\ old = Snapshot
    /\ log = <<>>
    /\ \E program \in RectangleProgramChoices : \E show_debug_borders \in BOOLEAN :
         render_context = [texture_rectangle_program |-> program,
                           show_debug_borders |-> show_debug_borders]
    /\ layer_transform = [l \in Layers |-> Identity]
    /\ tiles = [l \in Layers |-> <<>>]
    /\ gl = InitGL
    /\ draws = <<>>
    /\ frame = NoFrame

\* bind_and_render_quad (rendergl.rs:313-376) called once.
BindAndRenderQuadCall ==
    /\ frame = NoFrame
    /\ \E texture \in QuadTextures : \E t \in QuadTransforms(texture) :
         LET acc == BindAndRenderQuad([gl |-> gl, draws |-> <<>>, tiles |-> tiles,
                                       outcome |-> "ok"],
                                      texture, t, [layer |-> 0, tile |-> 0])
         IN /\ gl' = acc.gl
            /\ draws' = acc.draws
            /\ frame' = [op |-> "bind_and_render_quad", texture |-> texture,
                         transform |-> t, outcome |-> acc.outcome,
                         old |-> [gl |-> gl, draws |-> draws, tiles |-> tiles]]
    /\ UNCHANGED <<render_context, layer_transform, tiles>>
    /\ UNCHANGED non_render_vars

NextQuad == BindAndRenderQuadCall

SpecQuad == InitQuad /\ [][NextQuad]_vars

(***************************************************************************)
(* Frames of the first renderer over a scene of images.                    *)
(***************************************************************************)
\* A scene nothing operates on.
InitIdleScene ==
    /\ viewport = Viewport
    /\ scale = 1
    /\ root = None
    /\ children = [l \in Layers |-> <<>>]
    /\ masks_to_bounds = [l \in Layers |-> FALSE]
    /\ screen_rect = [l \in Layers |-> None]
    /\ bounds = [l \in Layers |-> LayerBounds]
    /\ unused = [l \in Layers |-> {}]
    /\ content_age = [l \in Layers |-> 0]
    /\ requests = <<>>
    /\ unused_buffers = <<>>
    /\ op = NoOp
    /\ old = Snapshot
    /\ log = <<>>

InitImage ==
    /\ InitNoSurfaces
    /\ InitNoRender
    /\ InitNoImages
    /\ InitNoLinks
    /\ InitIdleScene

\* The frames rendered so far: each begins by clearing the screen.
FramesRendered == Cardinality({k \in DOMAIN image_log : image_log[k].kind = "clear"})

\* render_scene of the first renderer (rendergl.rs:284-301), as the display
\* callback of test.rs:63-90 calls it once per frame, on a scene whose root is
\* the given layer.
RenderImageScene(layer) ==
    /\ FramesRendered < MaxFrames
    /\ LET cleared == [images |-> images,
                       log |-> Append(image_log, ImageEvent("clear", 0, None))]
           acc == RenderLayer(cleared, layer)
       IN /\ images' = acc.images
          /\ image_log' = acc.log
    /\ UNCHANGED non_image_vars

NextImage == \E layer \in ImageLayers : RenderImageScene(layer)

SpecImage == InitImage /\ [][NextImage]_vars

(***************************************************************************)
(* add_child and remove_child on the layers of the first layer tree.       *)
(***************************************************************************)
InitLinks ==
    /\ InitNoSurfaces
    /\ InitNoRender
    /\ InitNoImages
    /\ InitNoLinks
    /\ InitIdleScene

\* ContainerLayer::add_child (layers.rs:90-117); a failed assertion ends the task.
AddChild(self, new_child) ==
    /\ link_op.outcome = "ok"
    /\ link_op.count < MaxLinkOps
    /\ LET result == AddChildTo(Links, self, new_child)
       IN /\ parent' = result.links.parent
          /\ prev_sibling' = result.links.prev_sibling
          /\ next_sibling' = result.links.next_sibling
          /\ first_child' = result.links.first_child
          /\ last_child' = result.links.last_child
          /\ link_op' = [op |-> "add_child", self |-> self, child |-> new_child,
                         outcome |-> result.outcome, old |-> Links,
                         count |-> link_op.count + 1]
    /\ UNCHANGED non_link_vars

\* ContainerLayer::remove_child (layers.rs:119-150)
RemoveChild(self, child) ==
    /\ link_op.outcome = "ok"
    /\ link_op.count < MaxLinkOps
    /\ LET result == RemoveChildFrom(Links, self, child)
       IN /\ parent' = result.links.parent
          /\ prev_sibling' = result.links.prev_sibling
          /\ next_sibling' = result.links.next_sibling
          /\ first_child' = result.links.first_child
          /\ last_child' = result.links.last_child
          /\ link_op' = [op |-> "remove_child", self |-> self, child |-> child,
                         outcome |-> result.outcome, old |-> Links,
                         count |-> link_op.count + 1]
    /\ UNCHANGED non_link_vars

NextLinks ==
    \/ \E self \in Containers : \E new_child \in Nodes \ {self} : AddChild(self, new_child)
    \/ \E self \in Containers : \E child \in Nodes \ {self} : RemoveChild(self, child)

SpecLinks == InitLinks /\ [][NextLinks]_vars

(***************************************************************************)
(* Vocabulary of the claims about Scene.                                   *)
(***************************************************************************)
RECURSIVE Subtree(_)
\* The layer l and all its descendants.
Subtree(l) == {l} \cup UNION {Subtree(children[l][k]) : k \in DOMAIN children[l]}

ProperDescendants(l) == Subtree(l) \ {l}

Called == op.name = "get_buffer_requests"
Marked == op.name = "mark_layer_contents_as_changed_recursively"
Resized == op.name = "set_root_layer_size"

\* What the last get_buffer_requests appended to the caller's vectors.
NewRequests == SubSeq(requests, Len(old.requests) + 1, Len(requests))
NewUnused == SubSeq(unused_buffers, Len(old.unused_buffers) + 1, Len(unused_buffers))

EntriesFor(list, l) == {i \in DOMAIN list : list[i][1] = l}
EventsOf(ev, l) == {i \in DOMAIN log : log[i].ev = ev /\ log[i].layer = l}
Visited(l) == EventsOf("visit", l) # {}
\* The dirty rect a visited layer was entered with.
DirtyIn(l) == log[CHOOSE i \in EventsOf("visit", l) : TRUE].dirty
\* The visited layer l masks to bounds and its screen rect is absent or misses the dirty rect.
Clipped(l) ==
    /\ Visited(l)
    /\ masks_to_bounds[l]
    /\ \/ screen_rect[l] = None
       \/ Intersection(DirtyIn(l), Unwrap(screen_rect[l])) = None

\* C1: one call of get_buffer_requests visits each layer at most once and appends
\* at most one request entry and at most one unused-buffers entry per layer; what
\* the vectors held before the call stays in front.
C1_AtMostOncePerLayer ==
    Called =>
        /\ SubSeq(requests, 1, Len(old.requests)) = old.requests
        /\ SubSeq(unused_buffers, 1, Len(old.unused_buffers)) = old.unused_buffers
        /\ \A l \in Layers :
             /\ Cardinality(EventsOf("visit", l)) <= 1
             /\ Cardinality(EntriesFor(NewRequests, l)) <= 1
             /\ Cardinality(EntriesFor(NewUnused, l)) <= 1

\* A call on vectors that already held entries, over a tree of at least three
\* visited layers, at least two of which got a request entry.
C1_Witness ==
    /\ Called
    /\ old.requests # <<>>
    /\ Len(NewUnused) >= 3
    /\ Len(NewRequests) >= 2

C3_UnusedBeforeClip ==
    Called =>
        \A l \in Layers :
            Visited(l) =>
                /\ \E i \in EventsOf("unused", l) : \E j \in EventsOf("clip", l) : i < j
                /\ \E e \in EntriesFor(NewUnused, l) : NewUnused[e] = <<l, old.unused[l]>>
                /\ unused[l] = {}

\* A pruned layer with children that held unused buffers.
C3_Witness ==
    /\ Called
    /\ \E l \in Layers :
         /\ Clipped(l)
         /\ children[l] # <<>>
         /\ old.unused[l] # {}
         /\ <<l, old.unused[l]>> \in {NewUnused[e] : e \in DOMAIN NewUnused}

\* The scene's only layer is a childless root that does not mask and holds no
\* unused buffers, and the call was made with empty vectors.
LoneRootCall ==
    /\ Called
    /\ old.root # None
    /\ children[Unwrap(old.root)] = <<>>
    /\ ~masks_to_bounds[Unwrap(old.root)]
    /\ old.unused[Unwrap(old.root)] = {}
    /\ old.requests = <<>>
    /\ old.unused_buffers = <<>>

\* C4: for a lone non-masking childless root without unused buffers, a call with
\* empty vectors yields exactly one request entry, for the root, and no entry in
\* the unused-buffers vector.
C4_LoneRootOneRequestNoUnused ==
    LoneRootCall =>
        /\ Len(requests) = 1
        /\ requests[1][1] = Unwrap(old.root)
        /\ Len(unused_buffers) = 0

\* C5: on a scene without a root each of the three operations changes nothing:
\* the vectors passed in, the layers and the scene's fields are as before.
C5_RootlessNoOp ==
    (op # NoOp /\ old.root = None) =>
        /\ requests = old.requests
        /\ unused_buffers = old.unused_buffers
        /\ content_age = old.content_age
        /\ bounds = old.bounds
        /\ unused = old.unused
        /\ root = None
        /\ viewport = old.viewport
        /\ scale = old.scale

\* get_buffer_requests ran on a rootless scene with vectors that held entries,
\* while the layers held unused buffers.
C5_Witness ==
    /\ Called
    /\ old.root = None
    /\ old.requests # <<>>
    /\ old.unused_buffers # <<>>
    /\ \E l \in Layers : old.unused[l] # {}

\* C6: mark_layer_contents_as_changed_recursively calls contents_changed exactly
\* once on every layer of the tree, whatever the layers mask, and on no other.
C6_MarkTouchesAll ==
    (Marked /\ old.root # None) =>
        \A l \in Layers :
            content_age[l] = old.content_age[l]
                             + (IF l \in Subtree(Unwrap(old.root)) THEN 1 ELSE 0)

\* A tree of at least three layers in which a masking layer without a screen
\* rect has a child, which was marked all the same.
C6_Witness ==
    /\ Marked
    /\ old.root # None
    /\ Cardinality(Subtree(Unwrap(old.root))) >= 3
    /\ \E l \in Layers :
         /\ masks_to_bounds[l]
         /\ screen_rect[l] = None
         /\ children[l] # <<>>
         /\ content_age[children[l][1]] = 1

\* C7: on a scene with a root, set_root_layer_size(new_size) puts the root's
\* bounds at the origin with size new_size / scale, and changes no other layer's
\* bounds, nor the scene's root, scale or viewport.
C7_RootSizeSet ==
    (Resized /\ old.root # None) =>
        /\ bounds[Unwrap(old.root)].x = 0
        /\ bounds[Unwrap(old.root)].y = 0
        /\ bounds[Unwrap(old.root)].w * old.scale = op.new_size.w
        /\ bounds[Unwrap(old.root)].h * old.scale = op.new_size.h
        /\ \A l \in Layers \ {Unwrap(old.root)} : bounds[l] = old.bounds[l]
        /\ root = old.root
        /\ scale = old.scale
        /\ viewport = old.viewport

\* Size (8,6) at scale 2 gave the root the bounds (0,0,4,3); its bounds before
\* were elsewhere and of another size.
C7_Witness ==
    /\ Resized
    /\ old.root # None
    /\ old.scale = 2
    /\ op.new_size = Size(8, 6)
    /\ bounds[Unwrap(old.root)] = Rect(0, 0, 4, 3)
    /\ old.bounds[Unwrap(old.root)].x # 0
    /\ old.bounds[Unwrap(old.root)].w # 4

\* The entries of list are in depth-first pre-order of the tree.
PreOrder(list) ==
    LET sub == [l \in Layers |-> Subtree(l)]
        at == [l \in Layers |-> EntriesFor(list, l)]
        within(S) == UNION {at[l] : l \in S}
    IN /\ \A l \in Layers : \A i \in at[l] : \A j \in within(sub[l] \ {l}) : i < j
       /\ \A p \in Layers : \A k1, k2 \in DOMAIN children[p] :
            k1 < k2 => \A i \in within(sub[children[p][k1]]) :
                           \A j \in within(sub[children[p][k2]]) : i < j

\* C8: what get_buffer_requests appends to each vector is in depth-first
\* pre-order: a layer before its descendants, an earlier sibling's subtree
\* before a later sibling's.
C8_PreOrder ==
    Called => PreOrder(NewRequests) /\ PreOrder(NewUnused)

\* Two siblings, the earlier with a child, and the child and the later sibling
\* both have an entry in both vectors.
C8_Witness ==
    /\ Called
    /\ \E p \in Layers : \E k1, k2 \in DOMAIN children[p] :
         /\ k1 < k2
         /\ \E c \in ProperDescendants(children[p][k1]) :
              /\ EntriesFor(NewRequests, c) # {}
              /\ EntriesFor(NewUnused, c) # {}
              /\ EntriesFor(NewRequests, children[p][k2]) # {}
              /\ EntriesFor(NewUnused, children[p][k2]) # {}

(***************************************************************************)
(* Vocabulary of the claims about native surfaces.                         *)
(***************************************************************************)
\* The last surface operation was bind_to_texture on a handle that destroy had
\* left without an id.
BoundAfterDestroy ==
    /\ sres.op = "bind_to_texture"
    /\ sold.handles[sres.handle].io_surface_id = None

\* The call attached nothing to the texture and changed no registry and no handle.
NothingBound ==
    /\ texture_surface = sold.texture_surface
    /\ repository = sold.repository
    /\ handles = sold.handles

\* C9 as stated: bind_to_texture on a destroyed surface binds nothing and fails
\* with a not-found error.
C9_BindAfterDestroyNotFound ==
    BoundAfterDestroy => (sres.outcome = "not_found" /\ NothingBound)

\* C9 as amended: bind_to_texture on a destroyed surface handle binds nothing and
\* fails by the panic of unwrapping the handle's absent id, before any lookup.
C9_BindAfterDestroyPanics ==
    BoundAfterDestroy => (sres.outcome = "panic" /\ NothingBound)

\* A surface was created, bound to the texture, destroyed on the thread that
\* registered it, and then bound again through the same handle.
C9_Witness ==
    /\ BoundAfterDestroy
    /\ sres.outcome = "panic"
    /\ ~handles[sres.handle].will_leak
    /\ texture_surface # None
    /\ ~Alive(Unwrap(texture_surface))

\* The last surface operation was a destroy, run on the thread in whose
\* repository the handle's surface was registered.
DestroyedByRegistrar ==
    /\ sres.op = "destroy"
    /\ sold.handles[sres.handle].io_surface_id # None
    /\ Unwrap(sold.handles[sres.handle].io_surface_id) \in sold.repository[sres.thread]

\* C10: after destroy on the registering thread the registry has no entry under
\* the former id, every other entry of every registry is as before, the handle
\* has no id (get_id is 0) and its will-leak flag is false.
C10_DestroyClearsEntry ==
    DestroyedByRegistrar =>
        LET id == Unwrap(sold.handles[sres.handle].io_surface_id)
        IN /\ sres.outcome = "ok"
           /\ \A t \in Threads : id \notin repository[t]
           /\ \A t \in Threads : repository[t] \ {id} = sold.repository[t] \ {id}
           /\ handles[sres.handle].io_surface_id = None
           /\ GetId(handles[sres.handle]) = 0
           /\ handles[sres.handle].will_leak = FALSE

\* A destroy on the registering thread of a handle still flagged will-leak,
\* while the registries held another surface's entry, which is still there.
C10_Witness ==
    /\ DestroyedByRegistrar
    /\ sold.handles[sres.handle].will_leak
    /\ \E t \in Threads : repository[t] # {}

\* The last surface operation was a destroy on a handle whose id an earlier
\* destroy had already taken.
DestroyedAgain ==
    /\ sres.op = "destroy"
    /\ sold.handles[sres.handle].io_surface_id = None

\* C11: a second destroy on the same surface handle is no silent no-op: it ends
\* in an error (the panic of unwrapping the absent id), and every registry and
\* every handle is as it was before the failed call.
C11_SecondDestroyFails ==
    DestroyedAgain =>
        /\ sres.outcome = "panic"
        /\ repository = sold.repository
        /\ handles = sold.handles

\* A handle destroyed twice while another surface's entry was registered.
C11_Witness ==
    /\ DestroyedAgain
    /\ sres.outcome = "panic"
    /\ ~handles[sres.handle].will_leak
    /\ \E t \in Threads : repository[t] # {}

\* The last surface operation was a destroy of a handle that still had its id.
Destroyed ==
    /\ sres.op = "destroy"
    /\ sold.handles[sres.handle].io_surface_id # None

\* C12 as stated: the registry is process-wide, so after a destroy called on
\* any thread no thread's registry has an entry under the handle's former id.
C12_DestroyFromAnyThreadClearsEntry ==
    Destroyed =>
        \A t \in Threads : Unwrap(sold.handles[sres.handle].io_surface_id) \notin repository[t]

\* C13: a handle from_io_surface returns is flagged will-leak and its id is
\* registered; afterwards a handle's will-leak flag changes only by
\* mark_will_leak (to true), mark_wont_leak (to false) and destroy (to false)
\* on that handle, and the two mark operations leave the handle's id and every
\* registry as they were.
C13_WillLeakDiscipline ==
    /\ sres.op = "new" =>
           /\ handles[sres.handle].will_leak = TRUE
           /\ handles[sres.handle].io_surface_id # None
           /\ Unwrap(handles[sres.handle].io_surface_id) \in repository[sres.thread]
    /\ \A h \in DOMAIN sold.handles :
           handles[h].will_leak # sold.handles[h].will_leak =>
               /\ sres.handle = h
               /\ \/ sres.op = "mark_will_leak" /\ handles[h].will_leak = TRUE
                  \/ sres.op = "mark_wont_leak" /\ handles[h].will_leak = FALSE
                  \/ sres.op = "destroy" /\ handles[h].will_leak = FALSE
    /\ sres.op = "mark_will_leak" => handles[sres.handle].will_leak = TRUE
    /\ sres.op = "mark_wont_leak" => handles[sres.handle].will_leak = FALSE
    /\ sres.op \in {"mark_will_leak", "mark_wont_leak"} =>
           /\ handles[sres.handle].io_surface_id = sold.handles[sres.handle].io_surface_id
           /\ repository = sold.repository

\* A registered handle that had been marked wont-leak is marked will-leak again.
C13_Witness ==
    /\ sres.op = "mark_will_leak"
    /\ sold.handles[sres.handle].will_leak = FALSE
    /\ handles[sres.handle].will_leak = TRUE
    /\ handles[sres.handle].io_surface_id # None
    /\ Alive(Unwrap(handles[sres.handle].io_surface_id))

(***************************************************************************)
(* Vocabulary of the claims about rendering.                               *)
(***************************************************************************)
Framed == frame.op = "render_scene"
QuadCalled == frame.op = "bind_and_render_quad"

\* The draw calls of the given mode made for tile k of layer l.
DrawsFor(l, k, mode) ==
    {i \in DOMAIN draws : draws[i].who = [layer |-> l, tile |-> k] /\ draws[i].mode = mode}

\* C14: in a frame a tile whose texture is the sentinel gets no draw call,
\* neither the textured quad nor the debug border, whatever the debug-border
\* toggle is, and every tile with a texture gets its textured quad exactly once.
C14_SentinelNeverDrawn ==
    Framed =>
        /\ frame.outcome = "ok"
        /\ \A i \in DOMAIN draws : draws[i].mode = "TRIANGLE_STRIP" => draws[i].texture # 0
        /\ \A l \in Layers : \A k \in DOMAIN tiles[l] :
             IF IsZero(tiles[l][k].texture)
             THEN /\ DrawsFor(l, k, "TRIANGLE_STRIP") = {}
                  /\ DrawsFor(l, k, "LINE_STRIP") = {}
             ELSE /\ Cardinality(DrawsFor(l, k, "TRIANGLE_STRIP")) = 1
                  /\ \A i \in DrawsFor(l, k, "TRIANGLE_STRIP") :
                       draws[i].texture = tiles[l][k].texture.id

\* A frame with debug borders on, over a layer that holds a tile with content,
\* which was drawn, beside a tile without.
C14_Witness ==
    /\ Framed
    /\ render_context.show_debug_borders
    /\ \E l \in Layers : \E k1, k2 \in DOMAIN tiles[l] :
         /\ IsZero(tiles[l][k1].texture)
         /\ ~IsZero(tiles[l][k2].texture)
         /\ DrawsFor(l, k2, "TRIANGLE_STRIP") # {}
         /\ DrawsFor(l, k2, "LINE_STRIP") # {}

\* C15 as stated: bind_and_render_quad selects nearest-neighbour filtering
\* exactly when the transform's x and y scales equal the texture's pixel width
\* and height, and linear filtering for every other transform.
C15_NearestOnlyAtExactScale ==
    (QuadCalled /\ frame.outcome = "ok") =>
        (gl.filter[frame.texture.id] = "nearest"
            <=> /\ frame.transform.m11 = F(frame.texture.size.w)
                /\ frame.transform.m22 = F(frame.texture.size.h))

\* The call was made with a rectangle texture in a context without the
\* rectangle program.
NoProgramForTexture ==
    /\ QuadCalled
    /\ frame.texture.target = "rectangle"
    /\ render_context.texture_rectangle_program = None

\* C16: bind_and_render_quad draws a 2D texture with the 2D program and a
\* rectangle texture with the rectangle program; with a rectangle texture and
\* no rectangle program it fails with the GL context as it was and no draw call.
C16_ProgramByTarget ==
    QuadCalled =>
        IF NoProgramForTexture
        THEN /\ frame.outcome = "fail"
             /\ gl = frame.old.gl
             /\ draws = frame.old.draws
        ELSE /\ frame.outcome = "ok"
             /\ Len(draws) = 1
             /\ draws[1].mode = "TRIANGLE_STRIP"
             /\ draws[1].program = IF frame.texture.target = "2d"
                                   THEN "texture_2d_program"
                                   ELSE "texture_rectangle_program"

\* The call that fails for want of the rectangle program.
C16_Witness ==
    /\ NoProgramForTexture
    /\ frame.outcome = "fail"
    /\ gl.program = "none"

\* C17: in a frame every tile draw of a layer comes before every tile draw of
\* each of its descendants, and of two siblings every draw of the earlier
\* one's subtree comes before every draw of the later one's subtree.
C17_PaintOrder ==
    Framed =>
        LET sub == [l \in Layers |-> Subtree(l)]
        IN /\ \A i, j \in DOMAIN draws :
                (/\ draws[i].who.tile > 0
                 /\ draws[j].who.tile > 0
                 /\ draws[j].who.layer \in sub[draws[i].who.layer] \ {draws[i].who.layer})
                => i < j
           /\ \A p \in Layers : \A k1, k2 \in DOMAIN children[p] :
                k1 < k2 =>
                    \A i, j \in DOMAIN draws :
                        (/\ draws[i].who.layer \in sub[children[p][k1]]
                         /\ draws[j].who.layer \in sub[children[p][k2]])
                        => i < j

\* A frame in which two siblings and a child of the first of them each had a
\* tile drawn.
C17_Witness ==
    /\ Framed
    /\ \E p \in Layers : \E k1, k2 \in DOMAIN children[p] :
         /\ k1 < k2
         /\ \E c \in ProperDescendants(children[p][k1]) :
              \E i, j, m \in DOMAIN draws :
                 /\ draws[i].who.layer = children[p][k1] /\ draws[i].who.tile > 0
                 /\ draws[j].who.layer = c /\ draws[j].who.tile > 0
                 /\ draws[m].who.layer = children[p][k2] /\ draws[m].who.tile > 0

(***************************************************************************)
(* Vocabulary of the claims about image textures and child lists.         *)
(***************************************************************************)
UploadsOf(i) == {k \in DOMAIN image_log : image_log[k].kind = "upload" /\ image_log[k].image = i}

\* C18: over any number of frames an image's pixels are uploaded at most once,
\* and a call of create_texture_for_image_if_necessary on an image whose
\* texture is present returns with no upload and the texture as it was.
C18_UploadAtMostOnce ==
    /\ \A i \in Images : Cardinality(UploadsOf(i)) <= 1
    /\ \A i \in Images : \A k \in UploadsOf(i) : images[i].texture = image_log[k].texture
    /\ \A k \in DOMAIN image_log :
         (image_log[k].kind = "call" /\ image_log[k].texture # None) =>
             /\ image_log[k + 1].kind = "return"
             /\ image_log[k + 1].image = image_log[k].image
             /\ image_log[k + 1].texture = image_log[k].texture

\* An image uploaded in one frame and rendered again in a later one, where the
\* call found its texture.
C18_Witness ==
    \E i \in Images : \E k1, k2, k3 \in DOMAIN image_log :
        /\ k1 < k2 /\ k2 < k3
        /\ k1 \in UploadsOf(i)
        /\ image_log[k2].kind = "clear"
        /\ image_log[k3].kind = "call"
        /\ image_log[k3].image = i
        /\ image_log[k3].texture # None

\* The last operation was remove_child on a child that had no parent or whose
\* parent was another container.
RemovedStranger ==
    /\ link_op.op = "remove_child"
    /\ \/ link_op.old.parent[link_op.child] = None
       \/ Unwrap(link_op.old.parent[link_op.child]) # link_op.self

\* C19: remove_child on a child that has no parent, or whose parent is not this
\* container, fails an assertion, and no field of any layer has been modified.
C19_RemoveStrangerAsserts ==
    RemovedStranger =>
        /\ link_op.outcome = "assert"
        /\ Links = link_op.old

\* remove_child called on one container for a child of the other, which had
\* siblings.
C19_Witness ==
    /\ RemovedStranger
    /\ link_op.outcome = "assert"
    /\ parent[link_op.child] # None
    /\ \/ prev_sibling[link_op.child] # None
       \/ next_sibling[link_op.child] # None

\* C20 as stated: after remove_child the child's parent, prev_sibling and
\* next_sibling are all none.
C20_RemovedChildDisconnected ==
    (link_op.op = "remove_child" /\ link_op.outcome = "ok") =>
        /\ parent[link_op.child] = None
        /\ prev_sibling[link_op.child] = None
        /\ next_sibling[link_op.child] = None

RECURSIVE EachChildFrom(_, _, _)
\* ContainerLayer::each_child (layers.rs:78-88) on the links l: the layers the
\* loop visits from child_opt on, following next_sibling.  The loop of the
\* code does not end on a list that runs in a circle; the walk here stops
\* after fuel layers.
EachChildFrom(l, child_opt, fuel) ==
    IF child_opt = None \/ fuel = 0
    THEN <<>>
    ELSE <<Unwrap(child_opt)>>
             \o EachChildFrom(l, l.next_sibling[Unwrap(child_opt)], fuel - 1)

EachChild(l, self) == EachChildFrom(l, l.first_child[self], Cardinality(Nodes) + 1)

\* The child list of the container self is a well-formed doubly linked list.
WellFormed(l, self) ==
    LET listed == EachChild(l, self)
    IN /\ l.first_child[self] = None <=> l.last_child[self] = None
       /\ l.first_child[self] # None => l.prev_sibling[Unwrap(l.first_child[self])] = None
       /\ l.last_child[self] # None => l.next_sibling[Unwrap(l.last_child[self])] = None
       /\ Len(listed) <= Cardinality(Nodes)
       /\ listed # <<>> => l.last_child[self] = Some(listed[Len(listed)])
       /\ \A k \in DOMAIN listed :
            /\ l.parent[listed[k]] = Some(self)
            /\ l.next_sibling[listed[k]] # None =>
                   l.prev_sibling[Unwrap(l.next_sibling[listed[k]])] = Some(listed[k])

\* C21 as stated: after any sequence of add_child and remove_child calls whose
\* assertions all passed, the child list of every container is a well-formed
\* doubly linked list.
C21_ChildListWellFormed ==
    link_op.outcome = "ok" => \A self \in Containers : WellFormed(Links, self)

\* The last operation was an add_child all of whose assertions passed.
Added == link_op.op = "add_child" /\ link_op.outcome = "ok"

\* C22: after add_child(c) the container's each_child order is c followed by
\* the children it had, in the order they had, and last_child has changed only
\* if the container had no child.
C22_AddChildPrepends ==
    Added =>
        /\ EachChild(Links, link_op.self)
               = <<link_op.child>> \o EachChild(link_op.old, link_op.self)
        /\ last_child[link_op.self] # link_op.old.last_child[link_op.self] =>
               EachChild(link_op.old, link_op.self) = <<>>

\* The viewport rect a visited layer was entered with.
ViewportIn(l) == log[CHOOSE i \in EventsOf("visit", l) : TRUE].viewport

\* The visited children of the visited layer l.
VisitedKids(l) == {children[l][k] : k \in {j \in DOMAIN children[l] : Visited(children[l][j])}}

\* C23: in a call of get_buffer_requests every visited child of a visited layer
\* was entered with the parent's incoming dirty rect when the parent does not
\* mask to bounds, with the intersection of that rect and the parent's cached
\* screen rect when it does, and with the parent's incoming viewport rect.
C23_ChildDirtyRect ==
    Called =>
        \A l \in Layers : Visited(l) =>
            \A kid \in VisitedKids(l) :
                /\ ViewportIn(kid) = ViewportIn(l)
                /\ ~masks_to_bounds[l] => DirtyIn(kid) = DirtyIn(l)
                /\ masks_to_bounds[l] =>
                       /\ screen_rect[l] # None
                       /\ Some(DirtyIn(kid)) = Intersection(DirtyIn(l), Unwrap(screen_rect[l]))

\* A call in which a masking layer handed its child a dirty rect smaller than
\* the one it got, and that child, not masking, handed it on to a child of its own.
C23_Witness ==
    /\ Called
    /\ \E l \in Layers : \E kid \in VisitedKids(l) : \E grandkid \in VisitedKids(kid) :
           /\ Visited(l)
           /\ masks_to_bounds[l]
           /\ DirtyIn(kid) # DirtyIn(l)
           /\ ~masks_to_bounds[kid]
           /\ DirtyIn(grandkid) = DirtyIn(kid)

\* The layer whose children() holds l; the root has none.
HasParent(l) == \E p \in Layers : \E k \in DOMAIN children[p] : children[p][k] = l
ParentOf(l) == CHOOSE p \in Layers : \E k \in DOMAIN children[p] : children[p][k] = l

RECURSIVE IncomingTransform(_)
\* The transform the claim gives for the layer l: the identity scaled by the
\* scene scale for the root, the parent's incoming transform translated by the
\* parent's bounds origin for any other layer.
IncomingTransform(l) ==
    IF ~HasParent(l)
    THEN MatrixScale(Identity, F(scale), F(scale))
    ELSE MatrixTranslate(IncomingTransform(ParentOf(l)),
                         F(bounds[ParentOf(l)].x), F(bounds[ParentOf(l)].y))

\* The transform the claim gives for the tiles of the layer l.
TilesTransform(l) ==
    MatrixMul(MatrixTranslate(IncomingTransform(l), F(bounds[l].x), F(bounds[l].y)),
              layer_transform[l])

\* C24: in a frame every tile is drawn, and bordered, with the incoming
\* transform of its layer translated by the layer's bounds origin and composed
\* with the layer's own transform and then the tile's, and every layer border
\* with the layer's incoming transform scaled by the bounds size; the incoming
\* transform of the root is the identity scaled by the scene scale and that of
\* a child is its parent's translated by the parent's bounds origin, whatever
\* the transforms of the layers above.
C24_TransformChain ==
    Framed =>
        \A i \in DOMAIN draws :
            LET l == draws[i].who.layer
                k == draws[i].who.tile
            IN IF k = 0
               THEN draws[i].modelview
                        = Some(MatrixScale(IncomingTransform(l), F(bounds[l].w), F(bounds[l].h)))
               ELSE draws[i].modelview
                        = Some(MatrixMul(TilesTransform(l), tiles[l][k].transform))

\* A frame at scene scale 2 in which a layer with a transform of its own drew a
\* tile and a child of that layer drew one too.
C24_Witness ==
    /\ Framed
    /\ scale = 2
    /\ \E l \in Layers : \E i, j \in DOMAIN draws :
           /\ HasParent(l)
           /\ layer_transform[ParentOf(l)] # Identity
           /\ draws[i].who.layer = ParentOf(l) /\ draws[i].mode = "TRIANGLE_STRIP"
           /\ draws[j].who.layer = l /\ draws[j].mode = "TRIANGLE_STRIP"

\* The texture coordinates the claim gives for the unit-quad vertex v of texture.
ClaimedTextureCoord(texture, v) ==
    LET sx == IF texture.target = "2d" THEN F(1) ELSE F(texture.size.w)
        sy == IF texture.target = "2d" THEN F(1) ELSE F(texture.size.h)
    IN IF texture.flip = "VerticalFlip"
       THEN <<MulF(sx, v[1]), MulF(sy, F(1) - v[2])>>
       ELSE <<MulF(sx, v[1]), MulF(sy, v[2])>>

\* C25: the quad that bind_and_render_quad draws has, at each vertex (x, y) of
\* the unit quad, the texture coordinates (sx*x, sy*y) for an unflipped texture
\* and (sx*x, sy*(1 - y)) for a vertically flipped one, with sx = sy = 1 for a
\* 2D texture and (sx, sy) the texture's pixel size for a rectangle texture.
C25_TextureCoordinates ==
    QuadCalled /\ frame.outcome = "ok" =>
        /\ Len(draws) = 1
        /\ draws[1].texture_space # None
        /\ \A n \in DOMAIN TEXTURED_QUAD_VERTICES :
               VTextureCoord(Unwrap(draws[1].texture_space), TEXTURED_QUAD_VERTICES[n])
                   = ClaimedTextureCoord(frame.texture, TEXTURED_QUAD_VERTICES[n])

\* A vertically flipped rectangle texture of 2 by 3 pixels was drawn: its
\* bottom-right corner got the texture coordinates (2, 0).
C25_Witness ==
    /\ QuadCalled
    /\ frame.outcome = "ok"
    /\ frame.texture.flip = "VerticalFlip"
    /\ frame.texture.target = "rectangle"
    /\ frame.texture.size = Size(2, 3)
    /\ Len(draws) = 1
    /\ VTextureCoord(Unwrap(draws[1].texture_space), <<F(1), F(1)>>) = <<F(2), F(0)>>

====
